---- MODULE Spec2Model ----
(***************************************************************************)
(* Forum controller of the E-Vidwan LMS backend                            *)
(* (src/back/controllers/forumController.js, routed by                     *)
(* src/back/routes/forumRoutes.js).                                        *)
(*                                                                         *)
(* State: the ForumPost collection, the Notification collection, the like  *)
(* requests that have read their post and not yet saved it, and the last   *)
(* response sent.  Every handler is one action, except the two like        *)
(* handlers, which are split at their two awaits (findById, save) so that  *)
(* concurrent requests interleave.                                         *)
(***************************************************************************)
EXTENDS Integers, Sequences, FiniteSets, Bags, TLC

VARIABLES posts, nextId, nextReplyId, notifs, inflight, last

vars == <<posts, nextId, nextReplyId, notifs, inflight, last>>

(***************************************************************************)
(* Bounds of the model.                                                    *)
(***************************************************************************)
MaxPosts == 1
MaxReplies == 1
MaxInflight == 1
MaxLikeInflight == 2
MaxPagePosts == 3
MaxPage == 3
MaxLimit == 2

(***************************************************************************)
(* Fixtures: the User and Course documents the controller reads and never  *)
(* writes.  u1 teaches c1, where u2 is enrolled; u4 teaches c2, which has  *)
(* no student; u3 is enrolled nowhere and carries the role in lower case.  *)
(* "cX" is a course id with no document.                                   *)
(***************************************************************************)
Users == {"u1", "u2", "u3", "u4"}

role(u) ==
    CASE u = "u1" -> "Instructor"
      [] u = "u2" -> "Student"
      [] u = "u3" -> "instructor"
      [] u = "u4" -> "Instructor"

Course ==
    [c \in {"c1", "c2"} |->
        IF c = "c1"
        THEN [instructor |-> "u1", enrolledStudents |-> <<"u2">>]
        ELSE [instructor |-> "u4", enrolledStudents |-> <<>>]]

CourseIds == {"c1", "c2", "cX"}

Categories == {"General", "Question", "Announcement"}

Undefined == "undefined"

\* request bodies: the fields a handler copies without looking at them
Body1 == [title |-> "t1", content |-> "x1", tags |-> <<"g1">>, attachments |-> Undefined]
Body2 == [title |-> "t2", content |-> "x2", tags |-> <<"g2">>, attachments |-> <<"f2">>]

NoPost == [exists |-> FALSE]
NoData == [none |-> TRUE]

Range(s) == {s[i] : i \in 1..Len(s)}

(***************************************************************************)
(* Helpers of the handlers.                                                *)
(***************************************************************************)
\* String.prototype.toLowerCase on the role strings in use
toLowerCase(s) ==
    CASE s = "Instructor" -> "instructor"
      [] s = "INSTRUCTOR" -> "instructor"
      [] s = "instructor" -> "instructor"
      [] s = "Student" -> "student"
      [] s = "student" -> "student"

\* Course.findById
CourseExists(c) == c \in DOMAIN Course

\* ForumPost.findById
PostExists(p) == p \in DOMAIN posts

\* course.enrolledStudents.some(student => student._id == req.user._id)
IsEnrolled(c, u) == \E i \in 1..Len(Course[c].enrolledStudents) : Course[c].enrolledStudents[i] = u

\* variant: the role is compared, not the course's instructor
IsCourseInstructor_AnyInstructor(c, u) == role(u) = "Instructor"

\* course.instructor.toString() === req.user._id.toString()
IsCourseInstructor(c, u) == Course[c].instructor = u

\* variant: the role is compared as it is spelled
HasInstructorRole_CaseSensitive(u) == role(u) = "instructor"

\* req.user.role && req.user.role.toLowerCase() === 'instructor'
HasInstructorRole(u) == toLowerCase(role(u)) = "instructor"

\* variant: the author comparison is left out
IsAuthor_AnyUser(post, u) == TRUE

\* post.author.toString() === req.user._id.toString()
IsAuthor(post, u) == post.author = u

\* req.body.attachments || []
OrEmpty(a) == IF a = Undefined THEN <<>> ELSE a

Stored(p) == IF PostExists(p) THEN posts[p] ELSE NoPost

\* what the step leaves in last: the handler, the requester, the post named,
\* the status answered (0: none yet, the request is in flight), the post as
\* it was stored before the step, and the request's inputs with the payload
Respond(op, u, p, status, data) ==
    last' = [op |-> op, user |-> u, post |-> p, status |-> status, pre |-> Stored(p), data |-> data]

Notification(u, type) == [userId |-> u, type |-> type, isRead |-> FALSE]

Insert(bag, n) == bag (+) SetToBag({n})

RECURSIVE InsertMany(_, _)
InsertMany(bag, docs) ==
    IF docs = <<>> THEN bag ELSE InsertMany(Insert(bag, Head(docs)), Tail(docs))

\* the document ForumPost.create stores for createForumPost
NewForumPost(u, courseId, category, body) ==
    [courseId |-> courseId, author |-> u,
     title |-> body.title, content |-> body.content,
     category |-> category, tags |-> body.tags,
     attachments |-> OrEmpty(body.attachments),
     isAnnouncement |-> (category = "Announcement"),
     isPinned |-> FALSE, likes |-> <<>>, replies |-> <<>>]

\* the role/category rule of createForumPost: the 400 it answers, or 0
CategoryRule(u, category) ==
    IF HasInstructorRole(u)
    THEN (IF category # "Announcement" THEN 400 ELSE 0)
    ELSE (IF category = "Announcement" THEN 400 ELSE 0)

(***************************************************************************)
(* Route middleware (src/back/routes/forumRoutes.js).  authenticateUser    *)
(* guards every route: the requesters are the authenticated Users.         *)
(* authorizeRoles(['Instructor']) guards /announcement, /:postId/pin and   *)
(* /all; its code is not among the sources, it is taken to answer 403      *)
(* unless the requester's role is one of the listed roles.                 *)
(***************************************************************************)
authorizeRoles(u, roles) == role(u) \in roles

authorizeRolesDenied(u, route) ==
    /\ ~authorizeRoles(u, {"Instructor"})
    /\ Respond("authorizeRoles", u, 0, 403, [route |-> route])
    /\ UNCHANGED <<posts, nextId, nextReplyId, notifs, inflight>>

(***************************************************************************)
(* Persistence of post.save(): Mongoose sends the modified paths only, and *)
(* guards an update that could move array elements by the document's       *)
(* version key.  A like request in flight records the list it read; it is  *)
(* stale once a later write has advanced the version of its post.          *)
(***************************************************************************)
\* the version key of post p advances: every request that read p earlier is stale
AdvanceVersion(reqs, p) ==
    [i \in 1..Len(reqs) |-> IF reqs[i].post = p THEN [reqs[i] EXCEPT !.stale = TRUE] ELSE reqs[i]]

RemoveAt(s, i) == SubSeq(s, 1, i - 1) \o SubSeq(s, i + 1, Len(s))

\* Array.prototype.indexOf: the first index (from 0), or -1
indexOf(s, x) ==
    IF \E i \in 1..Len(s) : s[i] = x
    THEN (CHOOSE i \in 1..Len(s) : s[i] = x /\ \A j \in 1..(i - 1) : s[j] # x) - 1
    ELSE -1

\* Array.prototype.splice(index, 1)
splice(s, index) == RemoveAt(s, index + 1)

\* Array.prototype.push
push(s, x) == Append(s, x)

\* post.replies.id(replyId): the position of the sub-document, or 0
replyPos(post, replyId) ==
    IF \E i \in 1..Len(post.replies) : post.replies[i].id = replyId
    THEN CHOOSE i \in 1..Len(post.replies) : post.replies[i].id = replyId
    ELSE 0

(***************************************************************************)
(* createForumPost.  fail = "notify" is a failure of the instructor        *)
(* notification's save.                                                    *)
(***************************************************************************)
\* variant: the post and its notification are stored in one transaction, a
\* failed notification leaves no post
createForumPost_Transactional(u, courseId, category, body, fail) ==
    /\ UNCHANGED <<nextReplyId, inflight>>
    /\ IF ~CourseExists(courseId)
       THEN /\ Respond("createForumPost", u, 0, 404, [courseId |-> courseId, category |-> category, fail |-> fail])
            /\ UNCHANGED <<posts, nextId, notifs>>
       ELSE IF CategoryRule(u, category) # 0
       THEN /\ Respond("createForumPost", u, 0, 400, [courseId |-> courseId, category |-> category, fail |-> fail])
            /\ UNCHANGED <<posts, nextId, notifs>>
       ELSE IF ~IsCourseInstructor(courseId, u) /\ fail = "notify"
       THEN /\ Respond("createForumPost", u, 0, 500, [courseId |-> courseId, category |-> category, fail |-> fail])
            /\ UNCHANGED <<posts, nextId, notifs>>
       ELSE /\ posts' = (nextId :> NewForumPost(u, courseId, category, body)) @@ posts
            /\ nextId' = nextId + 1
            /\ notifs' = IF IsCourseInstructor(courseId, u) THEN notifs
                         ELSE Insert(notifs, Notification(Course[courseId].instructor, "Forum Post"))
            /\ Respond("createForumPost", u, nextId, 201, [courseId |-> courseId, category |-> category, fail |-> fail])

createForumPost(u, courseId, category, body, fail) ==
    /\ UNCHANGED <<nextReplyId, inflight>>
    /\ IF ~CourseExists(courseId)
       THEN /\ Respond("createForumPost", u, 0, 404, [courseId |-> courseId, category |-> category, fail |-> fail])
            /\ UNCHANGED <<posts, nextId, notifs>>
       ELSE IF CategoryRule(u, category) # 0
       THEN /\ Respond("createForumPost", u, 0, CategoryRule(u, category), [courseId |-> courseId, category |-> category, fail |-> fail])
            /\ UNCHANGED <<posts, nextId, notifs>>
       ELSE /\ posts' = (nextId :> NewForumPost(u, courseId, category, body)) @@ posts
            /\ nextId' = nextId + 1
            /\ IF ~IsCourseInstructor(courseId, u)
               THEN IF fail = "notify"
                    THEN /\ UNCHANGED notifs
                         /\ Respond("createForumPost", u, nextId, 500, [courseId |-> courseId, category |-> category, fail |-> fail])
                    ELSE /\ notifs' = Insert(notifs, Notification(Course[courseId].instructor, "Forum Post"))
                         /\ Respond("createForumPost", u, nextId, 201, [courseId |-> courseId, category |-> category, fail |-> fail])
               ELSE /\ UNCHANGED notifs
                    /\ Respond("createForumPost", u, nextId, 201, [courseId |-> courseId, category |-> category, fail |-> fail])

(***************************************************************************)
(* createAnnouncement, behind authorizeRoles(['Instructor']).              *)
(* fail = "students" is a failure of Notification.insertMany, "instructor" *)
(* a failure of the instructor notification's save.                        *)
(***************************************************************************)
\* the document ForumPost.create stores for createAnnouncement; tags,
\* isAnnouncement and isPinned are left to the schema's defaults
NewAnnouncement(u, courseId, body) ==
    [courseId |-> courseId, author |-> u,
     title |-> body.title, content |-> body.content,
     category |-> "Announcement", tags |-> <<>>,
     attachments |-> OrEmpty(body.attachments),
     isAnnouncement |-> FALSE,
     isPinned |-> FALSE, likes |-> <<>>, replies |-> <<>>]

\* variant: the first enrolled student gets no notification
StudentNotifications_SkipFirst(courseId) ==
    [i \in 1..(Len(Course[courseId].enrolledStudents) - 1) |->
        Notification(Course[courseId].enrolledStudents[i + 1], "Announcement")]

\* course.enrolledStudents.map(studentObj => ({userId: studentObj._id, type: "Announcement", ...}))
StudentNotifications(courseId) ==
    [i \in 1..Len(Course[courseId].enrolledStudents) |->
        Notification(Course[courseId].enrolledStudents[i], "Announcement")]

createAnnouncement(u, courseId, body, fail) ==
    /\ authorizeRoles(u, {"Instructor"})
    /\ UNCHANGED <<nextReplyId, inflight>>
    /\ IF ~CourseExists(courseId)
       THEN /\ Respond("createAnnouncement", u, 0, 404, [courseId |-> courseId, fail |-> fail])
            /\ UNCHANGED <<posts, nextId, notifs>>
       ELSE IF ~IsCourseInstructor(courseId, u)
       THEN /\ Respond("createAnnouncement", u, 0, 403, [courseId |-> courseId, fail |-> fail])
            /\ UNCHANGED <<posts, nextId, notifs>>
       ELSE /\ posts' = (nextId :> NewAnnouncement(u, courseId, body)) @@ posts
            /\ nextId' = nextId + 1
            /\ IF fail = "students" /\ Len(Course[courseId].enrolledStudents) > 0
               THEN /\ UNCHANGED notifs
                    /\ Respond("createAnnouncement", u, nextId, 500, [courseId |-> courseId, fail |-> fail])
               ELSE IF fail = "instructor"
               THEN /\ notifs' = InsertMany(notifs, StudentNotifications(courseId))
                    /\ Respond("createAnnouncement", u, nextId, 500, [courseId |-> courseId, fail |-> fail])
               ELSE /\ notifs' = Insert(InsertMany(notifs, StudentNotifications(courseId)),
                                        Notification(Course[courseId].instructor, "Announcement"))
                    /\ Respond("createAnnouncement", u, nextId, 201, [courseId |-> courseId, fail |-> fail])

(***************************************************************************)
(* getPostById                                                             *)
(***************************************************************************)
\* enrolled in the course or its instructor
HasAccess(c, u) == IsEnrolled(c, u) \/ IsCourseInstructor(c, u)

getPostById(u, p) ==
    /\ UNCHANGED <<posts, nextId, nextReplyId, notifs, inflight>>
    /\ IF ~PostExists(p)
       THEN Respond("getPostById", u, p, 404, NoData)
       ELSE IF ~HasAccess(posts[p].courseId, u)
       THEN Respond("getPostById", u, p, 403, NoData)
       ELSE Respond("getPostById", u, p, 200, NoData)

(***************************************************************************)
(* updatePost                                                              *)
(***************************************************************************)
\* findByIdAndUpdate(postId, {title, content, category, tags, attachments})
UpdatedPost(post, body, category) ==
    [post EXCEPT !.title = body.title, !.content = body.content,
                 !.category = category, !.tags = body.tags,
                 !.attachments = body.attachments]

updatePost(u, p, body, category) ==
    /\ UNCHANGED <<nextId, nextReplyId, notifs, inflight>>
    /\ IF ~PostExists(p)
       THEN /\ Respond("updatePost", u, p, 404, [body |-> body, category |-> category])
            /\ UNCHANGED posts
       ELSE IF ~IsAuthor(posts[p], u)
       THEN /\ Respond("updatePost", u, p, 403, [body |-> body, category |-> category])
            /\ UNCHANGED posts
       ELSE /\ posts' = [posts EXCEPT ![p] = UpdatedPost(posts[p], body, category)]
            /\ Respond("updatePost", u, p, 200, [body |-> body, category |-> category])

(***************************************************************************)
(* deletePost                                                              *)
(***************************************************************************)
\* variant: any user with the instructor role may delete
MayDelete_AnyInstructor(post, u) == post.author = u \/ toLowerCase(role(u)) = "instructor"

\* the author of the post or the instructor of its course
MayDelete(post, u) == IsAuthor(post, u) \/ IsCourseInstructor(post.courseId, u)

Without(f, p) == [q \in DOMAIN f \ {p} |-> f[q]]

deletePost(u, p) ==
    /\ UNCHANGED <<nextId, nextReplyId, notifs, inflight>>
    /\ IF ~PostExists(p)
       THEN /\ Respond("deletePost", u, p, 404, NoData)
            /\ UNCHANGED posts
       ELSE IF ~MayDelete(posts[p], u)
       THEN /\ Respond("deletePost", u, p, 403, NoData)
            /\ UNCHANGED posts
       ELSE /\ posts' = Without(posts, p)
            /\ Respond("deletePost", u, p, 200, NoData)

(***************************************************************************)
(* pinPost, behind authorizeRoles(['Instructor'])                          *)
(***************************************************************************)
pinPost(u, p) ==
    /\ authorizeRoles(u, {"Instructor"})
    /\ UNCHANGED <<nextId, nextReplyId, notifs, inflight>>
    /\ IF ~PostExists(p)
       THEN /\ Respond("pinPost", u, p, 404, NoData)
            /\ UNCHANGED posts
       ELSE IF ~IsCourseInstructor(posts[p].courseId, u)
       THEN /\ Respond("pinPost", u, p, 403, NoData)
            /\ UNCHANGED posts
       ELSE /\ posts' = [posts EXCEPT ![p].isPinned = ~posts[p].isPinned]
            /\ Respond("pinPost", u, p, 200, [isPinned |-> posts'[p].isPinned])

(***************************************************************************)
(* addReply, updateReply, deleteReply.  fail = "notify" is a failure of    *)
(* the author notification's save.                                         *)
(***************************************************************************)
NewReply(id, u, body) ==
    [id |-> id, author |-> u, content |-> body.content,
     attachments |-> OrEmpty(body.attachments), likes |-> <<>>]

addReply(u, p, body, fail) ==
    /\ UNCHANGED nextId
    /\ IF ~PostExists(p)
       THEN /\ Respond("addReply", u, p, 404, [fail |-> fail])
            /\ UNCHANGED <<posts, nextReplyId, notifs, inflight>>
       ELSE IF ~HasAccess(posts[p].courseId, u)
       THEN /\ Respond("addReply", u, p, 403, [fail |-> fail])
            /\ UNCHANGED <<posts, nextReplyId, notifs, inflight>>
       ELSE /\ posts' = [posts EXCEPT ![p].replies = push(@, NewReply(nextReplyId, u, body))]
            /\ nextReplyId' = nextReplyId + 1
            /\ inflight' = AdvanceVersion(inflight, p)
            /\ IF fail = "notify"
               THEN /\ UNCHANGED notifs
                    /\ Respond("addReply", u, p, 500, [fail |-> fail])
               ELSE /\ notifs' = Insert(notifs, Notification(posts[p].author, "Forum Reply"))
                    /\ Respond("addReply", u, p, 201, [fail |-> fail])

\* save() after updateReply advances the version only when it replaces an
\* array, the reply's attachments; content alone is a plain $set
ReplacesAttachments(reply, body) ==
    body.attachments # Undefined /\ body.attachments # reply.attachments

updateReply(u, p, replyId, body) ==
    /\ UNCHANGED <<nextId, nextReplyId, notifs>>
    /\ IF ~PostExists(p)
       THEN /\ Respond("updateReply", u, p, 404, NoData)
            /\ UNCHANGED <<posts, inflight>>
       ELSE IF replyPos(posts[p], replyId) = 0
       THEN /\ Respond("updateReply", u, p, 404, NoData)
            /\ UNCHANGED <<posts, inflight>>
       ELSE IF posts[p].replies[replyPos(posts[p], replyId)].author # u
       THEN /\ Respond("updateReply", u, p, 403, NoData)
            /\ UNCHANGED <<posts, inflight>>
       ELSE /\ posts' = [posts EXCEPT ![p].replies[replyPos(posts[p], replyId)] =
                            [@ EXCEPT !.content = body.content,
                                      !.attachments = IF body.attachments = Undefined
                                                      THEN @ ELSE body.attachments]]
            /\ inflight' = IF ReplacesAttachments(posts[p].replies[replyPos(posts[p], replyId)], body)
                           THEN AdvanceVersion(inflight, p) ELSE inflight
            /\ Respond("updateReply", u, p, 200, NoData)

deleteReply(u, p, replyId) ==
    /\ UNCHANGED <<nextId, nextReplyId, notifs>>
    /\ IF ~PostExists(p)
       THEN /\ Respond("deleteReply", u, p, 404, NoData)
            /\ UNCHANGED <<posts, inflight>>
       ELSE IF replyPos(posts[p], replyId) = 0
       THEN /\ Respond("deleteReply", u, p, 404, NoData)
            /\ UNCHANGED <<posts, inflight>>
       ELSE IF /\ posts[p].replies[replyPos(posts[p], replyId)].author # u
               /\ ~IsCourseInstructor(posts[p].courseId, u)
       THEN /\ Respond("deleteReply", u, p, 403, NoData)
            /\ UNCHANGED <<posts, inflight>>
       ELSE /\ posts' = [posts EXCEPT ![p].replies = RemoveAt(@, replyPos(posts[p], replyId))]
            /\ inflight' = AdvanceVersion(inflight, p)
            /\ Respond("deleteReply", u, p, 200, NoData)

(***************************************************************************)
(* toggleLikePost and toggleLikeReply, each split at its awaits: Read is   *)
(* findById with the synchronous code up to save(), Save is post.save()    *)
(* with the response.  A request between the two is in flight.             *)
(* save() after likes.push sends $push of the one id (no version guard on  *)
(* a top-level array); after likes.splice it sends $set of the whole list, *)
(* guarded by the version it read; on a reply's likes (an array inside an  *)
(* array element) both are guarded.  A guarded save of a stale document,   *)
(* and any save of a deleted one, fails.                                   *)
(***************************************************************************)
\* likeIndex === -1 ? likes.push(req.user._id) : likes.splice(likeIndex, 1)
ToggleLikes(likes, u) ==
    IF indexOf(likes, u) = -1 THEN push(likes, u) ELSE splice(likes, indexOf(likes, u))

\* a like request in flight: what findById returned to it
LikeRequest(kind, u, p, replyId, pos, likes) ==
    [kind |-> kind, user |-> u, post |-> p, reply |-> replyId, pos |-> pos,
     read |-> likes, stale |-> FALSE]

\* the list the handler holds after its push or splice
LocalLikes(r) == ToggleLikes(r.read, r.user)

\* {likes: likes.length, isLiked: likeIndex === -1}, with the request it answers
LikeResponse(r) ==
    [likes |-> Len(LocalLikes(r)), isLiked |-> (indexOf(r.read, r.user) = -1),
     kind |-> r.kind, reply |-> r.reply, read |-> r.read]

Pending == [pending |-> TRUE]

toggleLikePostRead(u, p) ==
    /\ UNCHANGED <<posts, nextId, nextReplyId, notifs>>
    /\ IF ~PostExists(p)
       THEN /\ Respond("toggleLikePost", u, p, 404, NoData)
            /\ UNCHANGED inflight
       ELSE /\ inflight' = Append(inflight, LikeRequest("post", u, p, 0, 0, posts[p].likes))
            /\ Respond("toggleLikePost", u, p, 0, Pending)

\* the likes list post.save() leaves stored for a post-like request
SavedPostLikes(stored, r) ==
    IF indexOf(r.read, r.user) = -1 THEN push(stored, r.user) ELSE LocalLikes(r)

\* whether post.save() of request r goes through
SaveSucceeds(r) ==
    /\ PostExists(r.post)
    /\ (r.kind = "post" /\ indexOf(r.read, r.user) = -1) \/ ~r.stale

toggleLikePostSave(i) ==
    /\ i \in 1..Len(inflight)
    /\ inflight[i].kind = "post"
    /\ UNCHANGED <<nextId, nextReplyId, notifs>>
    /\ LET r == inflight[i] IN
       IF ~SaveSucceeds(r)
       THEN /\ UNCHANGED posts
            /\ inflight' = RemoveAt(inflight, i)
            /\ Respond("toggleLikePost", r.user, r.post, 500, NoData)
       ELSE /\ posts' = [posts EXCEPT ![r.post].likes = SavedPostLikes(@, r)]
            /\ inflight' = AdvanceVersion(RemoveAt(inflight, i), r.post)
            /\ Respond("toggleLikePost", r.user, r.post, 200, LikeResponse(r))

toggleLikeReplyRead(u, p, replyId) ==
    /\ UNCHANGED <<posts, nextId, nextReplyId, notifs>>
    /\ IF ~PostExists(p)
       THEN /\ Respond("toggleLikeReply", u, p, 404, NoData)
            /\ UNCHANGED inflight
       ELSE IF replyPos(posts[p], replyId) = 0
       THEN /\ Respond("toggleLikeReply", u, p, 404, NoData)
            /\ UNCHANGED inflight
       ELSE /\ inflight' = Append(inflight,
                  LikeRequest("reply", u, p, replyId, replyPos(posts[p], replyId),
                              posts[p].replies[replyPos(posts[p], replyId)].likes))
            /\ Respond("toggleLikeReply", u, p, 0, Pending)

toggleLikeReplySave(i) ==
    /\ i \in 1..Len(inflight)
    /\ inflight[i].kind = "reply"
    /\ UNCHANGED <<nextId, nextReplyId, notifs>>
    /\ LET r == inflight[i] IN
       IF ~SaveSucceeds(r)
       THEN /\ UNCHANGED posts
            /\ inflight' = RemoveAt(inflight, i)
            /\ Respond("toggleLikeReply", r.user, r.post, 500, NoData)
       ELSE /\ posts' = [posts EXCEPT ![r.post].replies[r.pos].likes = LocalLikes(r)]
            /\ inflight' = AdvanceVersion(RemoveAt(inflight, i), r.post)
            /\ Respond("toggleLikeReply", r.user, r.post, 200, LikeResponse(r))

(***************************************************************************)
(* getMyPosts, getCourseDiscussions, getAllPosts: find(query), sorted,     *)
(* skip((page - 1) * limit), limit(limit), and countDocuments(query).      *)
(* createdAt orders the posts as their creation does, so a post's id       *)
(* stands for it.  A response lists the ids of its posts.                  *)
(***************************************************************************)
\* the characters of the titles and contents in use
Text(s) ==
    CASE s = "t1" -> <<"t", "1">>
      [] s = "t2" -> <<"t", "2">>
      [] s = "x1" -> <<"x", "1">>
      [] s = "x2" -> <<"x", "2">>

lowerChar(c) ==
    CASE c = "T" -> "t"
      [] c = "X" -> "x"
      [] OTHER -> c

\* { $regex: search, $options: 'i' } for a search term without metacharacters
RegexMatchI(text, search) ==
    \E i \in 1..(Len(text) - Len(search) + 1) :
        \A j \in 1..Len(search) : lowerChar(text[i + j - 1]) = lowerChar(search[j])

\* query.$or = [{title: regex}, {content: regex}], when search is given
SearchMatches(post, search) ==
    \/ search = Undefined
    \/ RegexMatchI(Text(post.title), search)
    \/ RegexMatchI(Text(post.content), search)

\* .sort(): the ids of S by falling key
RECURSIVE SortDesc(_, _)
SortDesc(S, key) ==
    IF S = {} THEN <<>>
    ELSE LET m == CHOOSE x \in S : \A y \in S : key[y] <= key[x]
         IN  <<m>> \o SortDesc(S \ {m}, key)

\* sort({createdAt: -1})
ByCreatedAt == [p \in DOMAIN posts |-> p]

\* sort({isPinned: -1, createdAt: -1})
ByPinnedThenCreatedAt == [p \in DOMAIN posts |-> (IF posts[p].isPinned THEN nextId ELSE 0) + p]

skip(s, n) == SubSeq(s, n + 1, Len(s))

limitTo(s, n) == SubSeq(s, 1, IF n < Len(s) THEN n ELSE Len(s))

\* variant: skip(page * limit)
Paginate_SkipWholePage(sorted, page, limit) == limitTo(skip(sorted, page * limit), limit)

\* .skip((page - 1) * limit).limit(limit) on the sorted result
Paginate(sorted, page, limit) == limitTo(skip(sorted, (page - 1) * limit), limit)

\* Math.ceil(total / limit)
ceilDiv(total, limit) ==
    IF total % limit = 0 THEN total \div limit ELSE (total \div limit) + 1

PageResponse(query, sorted, page, limit) ==
    [query |-> query, page |-> page, limit |-> limit,
     data |-> Paginate(sorted, page, limit),
     total |-> Len(sorted),
     pages |-> ceilDiv(Len(sorted), limit)]

\* find({author: req.user._id}).sort({createdAt: -1})
MyPosts(u) == SortDesc({p \in DOMAIN posts : posts[p].author = u}, ByCreatedAt)

getMyPosts(u, page, limit) ==
    /\ UNCHANGED <<posts, nextId, nextReplyId, notifs, inflight>>
    /\ Respond("getMyPosts", u, 0, 200,
               PageResponse([author |-> u], MyPosts(u), page, limit))

\* find({courseId, category?, $or?}).sort({isPinned: -1, createdAt: -1})
CourseDiscussions(courseId, category, search) ==
    SortDesc({p \in DOMAIN posts :
                 /\ posts[p].courseId = courseId
                 /\ category # Undefined => posts[p].category = category
                 /\ SearchMatches(posts[p], search)},
             ByPinnedThenCreatedAt)

getCourseDiscussions(u, courseId, page, limit, category, search) ==
    /\ UNCHANGED <<posts, nextId, nextReplyId, notifs, inflight>>
    /\ IF ~CourseExists(courseId)
       THEN Respond("getCourseDiscussions", u, 0, 404, NoData)
       ELSE IF ~HasAccess(courseId, u)
       THEN Respond("getCourseDiscussions", u, 0, 403, NoData)
       ELSE Respond("getCourseDiscussions", u, 0, 200,
                    PageResponse([courseId |-> courseId, category |-> category, search |-> search],
                                 CourseDiscussions(courseId, category, search), page, limit))

\* find({$or?}).sort({createdAt: -1})
AllPosts(search) ==
    SortDesc({p \in DOMAIN posts : SearchMatches(posts[p], search)}, ByCreatedAt)

\* behind authorizeRoles(['Instructor']).  The router registers GET /:postId
\* before GET /all, so a request for /all is answered by getPostById; the
\* handler is modelled as exported.
getAllPosts(u, page, limit, search) ==
    /\ authorizeRoles(u, {"Instructor"})
    /\ UNCHANGED <<posts, nextId, nextReplyId, notifs, inflight>>
    /\ Respond("getAllPosts", u, 0, 200,
               PageResponse([search |-> search], AllPosts(search), page, limit))

Init ==
    /\ posts = <<>>
    /\ nextId = 1
    /\ nextReplyId = 1
    /\ notifs = EmptyBag
    /\ inflight = <<>>
    /\ last = [op |-> "none", user |-> "none", post |-> 0, status |-> 0, pre |-> NoPost, data |-> NoData]

PostIds == 1..MaxPosts
ReplyIds == 1..MaxReplies

(***************************************************************************)
(* Spec: every handler that writes, requested by every user at any time;   *)
(* one user likes, one like request at a time.                             *)
(***************************************************************************)
Likers == {"u2"}

Next ==
    \/ \E u \in Users, c \in CourseIds, cat \in {"General", "Announcement"}, f \in {"none", "notify"} :
          /\ nextId <= MaxPosts
          /\ createForumPost(u, c, cat, Body1, f)
    \/ \E u \in Users, c \in CourseIds, f \in {"none", "students", "instructor"} :
          /\ nextId <= MaxPosts
          /\ createAnnouncement(u, c, Body1, f)
    \/ \E u \in Users, route \in {"createAnnouncement", "pinPost"} :
          authorizeRolesDenied(u, route)
    \/ \E u \in Users, p \in PostIds : getPostById(u, p)
    \/ \E u \in Users, p \in PostIds : updatePost(u, p, Body2, "Question")
    \/ \E u \in Users, p \in PostIds : deletePost(u, p)
    \/ \E u \in Users, p \in PostIds : pinPost(u, p)
    \/ \E u \in Users, p \in PostIds, f \in {"none", "notify"} :
          /\ nextReplyId <= MaxReplies
          /\ addReply(u, p, Body1, f)
    \/ \E u \in Users, p \in PostIds, r \in ReplyIds : updateReply(u, p, r, Body2)
    \/ \E u \in Users, p \in PostIds, r \in ReplyIds : deleteReply(u, p, r)
    \/ \E u \in Likers, p \in PostIds :
          /\ Len(inflight) < MaxInflight
          /\ toggleLikePostRead(u, p)
    \/ \E i \in 1..MaxInflight : toggleLikePostSave(i)
    \/ \E u \in Likers, p \in PostIds, r \in ReplyIds :
          /\ Len(inflight) < MaxInflight
          /\ toggleLikeReplyRead(u, p, r)
    \/ \E i \in 1..MaxInflight : toggleLikeReplySave(i)

Spec == Init /\ [][Next]_vars

(***************************************************************************)
(* A refused request (400, 403, 404) stores nothing, so the requests that  *)
(* follow it are those that could be made in its place: the workloads      *)
(* below do not take them.                                                 *)
(***************************************************************************)
Refused == last.status \in {400, 403, 404}

(***************************************************************************)
(* SpecCreate: the handlers that store a document and then notify, each    *)
(* requested by every user for every course, with a failure at each        *)
(* notification insert.                                                    *)
(***************************************************************************)
NextCreate ==
    \/ \E u \in Users, c \in CourseIds, cat \in {"General", "Announcement"}, f \in {"none", "notify"} :
          /\ nextId <= MaxPosts
          /\ ~Refused
          /\ createForumPost(u, c, cat, Body1, f)
    \/ \E u \in Users, c \in CourseIds, f \in {"none", "students", "instructor"} :
          /\ nextId <= MaxPosts
          /\ ~Refused
          /\ createAnnouncement(u, c, Body1, f)
    \/ \E u \in Users :
          /\ ~Refused
          /\ authorizeRolesDenied(u, "createAnnouncement")
    \/ \E u \in Users, p \in PostIds, f \in {"none", "notify"} :
          /\ nextReplyId <= MaxReplies
          /\ ~Refused
          /\ addReply(u, p, Body1, f)

SpecCreate == Init /\ [][NextCreate]_vars

(***************************************************************************)
(* SpecEdit: posts of every user in c1, updated and deleted by every user. *)
(***************************************************************************)
NextEdit ==
    \/ \E u \in Users, cat \in {"General", "Announcement"} :
          /\ nextId <= MaxPosts
          /\ ~Refused
          /\ createForumPost(u, "c1", cat, Body1, "none")
    \/ \E u \in Users, p \in PostIds, cat \in {"General", "Question"} :
          /\ ~Refused
          /\ updatePost(u, p, Body2, cat)
    \/ \E u \in Users, p \in PostIds :
          /\ ~Refused
          /\ deletePost(u, p)

SpecEdit == Init /\ [][NextEdit]_vars

(***************************************************************************)
(* SpecLikes: concurrent like requests of two users on a post of u2 in c1  *)
(* and on u1's reply to it.                                                *)
(***************************************************************************)
LikeUsers == {"u1", "u2"}

NextLikes ==
    \/ /\ nextId <= MaxPosts
       /\ createForumPost("u2", "c1", "General", Body1, "none")
    \/ \E p \in PostIds :
          /\ nextReplyId <= MaxReplies
          /\ addReply("u1", p, Body1, "none")
    \/ \E p \in PostIds : deletePost("u2", p)
    \/ \E u \in LikeUsers, p \in PostIds :
          /\ Len(inflight) < MaxLikeInflight
          /\ toggleLikePostRead(u, p)
    \/ \E i \in 1..MaxLikeInflight : toggleLikePostSave(i)
    \/ \E u \in LikeUsers, p \in PostIds, r \in ReplyIds :
          /\ Len(inflight) < MaxLikeInflight
          /\ toggleLikeReplyRead(u, p, r)
    \/ \E i \in 1..MaxLikeInflight : toggleLikeReplySave(i)

SpecLikes == Init /\ [][NextLikes]_vars

(***************************************************************************)
(* SpecPage: the paginated reads over the collections that posts of u2     *)
(* ("t1") and announcements of u1 ("t2") in c1, pinned and deleted, make   *)
(* up.                                                                     *)
(***************************************************************************)
PagePostIds == 1..MaxPagePosts
Pages == 1..MaxPage
Limits == 1..MaxLimit
Searches == {Undefined, <<"T", "2">>}
CourseQueries ==
    {[category |-> Undefined, search |-> Undefined],
     [category |-> "General", search |-> Undefined],
     [category |-> Undefined, search |-> <<"T", "2">>]}

\* a read leaves the collections as they are, so the reads that follow a
\* read are those that could be made in its place: they need not be taken
AfterWrite == last.op \notin {"getMyPosts", "getCourseDiscussions", "getAllPosts"}

NextPage ==
    \/ /\ nextId <= MaxPagePosts
       /\ createForumPost("u2", "c1", "General", Body1, "none")
    \/ /\ nextId <= MaxPagePosts
       /\ createForumPost("u1", "c1", "Announcement", Body2, "none")
    \/ \E p \in PagePostIds : deletePost("u1", p)
    \/ \E p \in PagePostIds : pinPost("u1", p)
    \/ \E u \in {"u1", "u2"}, page \in Pages, limit \in Limits :
          /\ AfterWrite
          /\ getMyPosts(u, page, limit)
    \/ \E page \in Pages, limit \in Limits, q \in CourseQueries :
          /\ AfterWrite
          /\ getCourseDiscussions("u2", "c1", page, limit, q.category, q.search)
    \/ \E r \in {<<"u3", "c1">>, <<"u2", "cX">>} :
          /\ AfterWrite
          /\ getCourseDiscussions(r[1], r[2], 1, 1, Undefined, Undefined)
    \/ \E page \in Pages, limit \in Limits, search \in Searches :
          /\ AfterWrite
          /\ getAllPosts("u1", page, limit, search)

SpecPage == Init /\ [][NextPage]_vars

(***************************************************************************)
(* Properties.  In an action formula last' is the step's own response:     *)
(* every action sets last.                                                 *)
(***************************************************************************)
Deleted == (1..(nextId - 1)) \ DOMAIN posts

MayEditFields == {"title", "content", "category", "tags", "attachments"}

\* C1: updatePost answers 404 for a post that is not stored, 403 to a
\* requester who is not the author, leaving the stored post as it was, and
\* only for the author replaces title, content, category, tags and
\* attachments by the request's values (every other field and every other
\* post stay as they were).
C1_UpdateOnlyByAuthor ==
    [][last'.op = "updatePost" =>
        LET p == last'.post
            u == last'.user
            req == last'.data
        IN  IF p \notin DOMAIN posts
            THEN last'.status = 404 /\ posts' = posts
            ELSE IF posts[p].author # u
            THEN last'.status = 403 /\ posts' = posts
            ELSE /\ last'.status = 200
                 /\ DOMAIN posts' = DOMAIN posts
                 /\ \A q \in DOMAIN posts \ {p} : posts'[q] = posts[q]
                 /\ posts'[p].title = req.body.title
                 /\ posts'[p].content = req.body.content
                 /\ posts'[p].category = req.category
                 /\ posts'[p].tags = req.body.tags
                 /\ posts'[p].attachments = req.body.attachments
                 /\ \A f \in DOMAIN posts[p] \ MayEditFields : posts'[p][f] = posts[p][f]
    ]_vars

\* C1 witness: the author's update went through and changed the stored post.
C1_Witness ==
    /\ last.op = "updatePost"
    /\ last.status = 200
    /\ last.pre # NoPost
    /\ posts[last.post] # last.pre
    /\ posts[last.post].title = "t2"

\* C2 (as claimed): createForumPost creates no post for a course that does not
\* exist (404) and none for a requester who is neither enrolled in the
\* course nor its instructor.
C2_EnrollmentChecked ==
    [][last'.op = "createForumPost" =>
        LET c == last'.data.courseId
            u == last'.user
        IN  /\ c \notin DOMAIN Course => (last'.status = 404 /\ posts' = posts)
            /\ (c \in DOMAIN Course
                /\ Course[c].instructor # u
                /\ u \notin Range(Course[c].enrolledStudents)) => posts' = posts
    ]_vars

\* C3: for a course that exists, createForumPost answers 400 to a requester
\* whose role is instructor in any case unless the category is
\* 'Announcement', and 400 to any other requester when the category is
\* 'Announcement'; a refused request stores no post and no notification;
\* any other request stores one new post, authored by the requester, whose
\* isAnnouncement is true exactly when its category is 'Announcement'.
C3_RoleCategoryRule ==
    [][(last'.op = "createForumPost" /\ last'.data.courseId \in DOMAIN Course) =>
        LET u == last'.user
            cat == last'.data.category
            instructor == role(u) \in {"Instructor", "instructor", "INSTRUCTOR"}
            refused == (instructor /\ cat # "Announcement") \/ (~instructor /\ cat = "Announcement")
        IN  IF refused
            THEN last'.status = 400 /\ posts' = posts /\ notifs' = notifs
            ELSE /\ last'.status # 400
                 /\ DOMAIN posts' = DOMAIN posts \cup {nextId}
                 /\ nextId \notin DOMAIN posts
                 /\ \A q \in DOMAIN posts : posts'[q] = posts[q]
                 /\ posts'[nextId].author = u
                 /\ posts'[nextId].category = cat
                 /\ posts'[nextId].isAnnouncement = (cat = "Announcement")
    ]_vars

\* C3 witness: a requester whose role is spelled in lower case has stored an
\* announcement through createForumPost.
C3_Witness ==
    /\ last.op = "createForumPost"
    /\ last.status = 201
    /\ role(last.user) = "instructor"
    /\ last.post \in DOMAIN posts
    /\ posts[last.post].isAnnouncement
    /\ posts[last.post].author = last.user

\* the Announcement notifications a successful createAnnouncement adds for n
AnnouncementsDue(c, n) ==
    IF n.type = "Announcement" /\ ~n.isRead
    THEN Cardinality({i \in 1..Len(Course[c].enrolledStudents) : Course[c].enrolledStudents[i] = n.userId})
         + (IF Course[c].instructor = n.userId THEN 1 ELSE 0)
    ELSE 0

\* C4: createAnnouncement answers 404 for a missing course and 403 to a
\* requester who is not the instructor of the course (a requester without
\* the Instructor role is refused with 403 before the handler), storing
\* nothing; a request answered 201 comes from the course's instructor and
\* has stored exactly one new post, of category 'Announcement' and authored
\* by the requester, and exactly one unread 'Announcement' notification for
\* each enrolled student and one for the instructor, and nothing else.
C4_AnnouncementByInstructor ==
    [][/\ (last'.op = "authorizeRoles" /\ last'.data.route = "createAnnouncement") =>
            (last'.status = 403 /\ posts' = posts /\ notifs' = notifs
             /\ role(last'.user) # "Instructor")
       /\ last'.op = "createAnnouncement" =>
            LET c == last'.data.courseId
                u == last'.user
            IN  /\ c \notin DOMAIN Course =>
                     (last'.status = 404 /\ posts' = posts /\ notifs' = notifs)
                /\ (c \in DOMAIN Course /\ Course[c].instructor # u) =>
                     (last'.status = 403 /\ posts' = posts /\ notifs' = notifs)
                /\ (c \in DOMAIN Course /\ Course[c].instructor = u /\ last'.data.fail = "none") =>
                     last'.status = 201
                /\ last'.status = 201 =>
                     /\ c \in DOMAIN Course
                     /\ Course[c].instructor = u
                     /\ nextId \notin DOMAIN posts
                     /\ DOMAIN posts' = DOMAIN posts \cup {nextId}
                     /\ \A q \in DOMAIN posts : posts'[q] = posts[q]
                     /\ posts'[nextId].category = "Announcement"
                     /\ posts'[nextId].author = u
                     /\ posts'[nextId].courseId = c
                     /\ \A n \in BagToSet(notifs') \cup BagToSet(notifs) :
                            CopiesIn(n, notifs') = CopiesIn(n, notifs) + AnnouncementsDue(c, n)
                     /\ \A i \in 1..Len(Course[c].enrolledStudents) :
                            BagIn(Notification(Course[c].enrolledStudents[i], "Announcement"), notifs')
                     /\ BagIn(Notification(Course[c].instructor, "Announcement"), notifs')
    ]_vars

\* C4 witness: the instructor of c1, which has an enrolled student, has
\* created an announcement, and both notifications are stored.
C4_Witness ==
    /\ last.op = "createAnnouncement"
    /\ last.status = 201
    /\ last.data.courseId = "c1"
    /\ last.post \in DOMAIN posts
    /\ posts[last.post].category = "Announcement"
    /\ CopiesIn(Notification("u2", "Announcement"), notifs) = 1
    /\ CopiesIn(Notification("u1", "Announcement"), notifs) = 1

AfterDeleteOps == {"getPostById", "updatePost", "deletePost", "addReply", "toggleLikePost", "pinPost"}

\* C5: a post leaves the collection only through a deletePost request by its
\* author or by the instructor of its course; deletePost by anyone else
\* answers 403 and the post stays stored as it was; a deleted post stays
\* deleted, and every getPostById, updatePost, deletePost, addReply,
\* toggleLikePost or pinPost request that arrives for its id afterwards
\* answers 404; no step removes a notification.
C5_DeleteOnlyByAuthorOrInstructor ==
    [][/\ \A p \in DOMAIN posts \ DOMAIN posts' :
            /\ last'.op = "deletePost"
            /\ last'.post = p
            /\ last'.status = 200
            /\ (posts[p].author = last'.user \/ Course[posts[p].courseId].instructor = last'.user)
       /\ (last'.op = "deletePost" /\ last'.post \in DOMAIN posts
           /\ posts[last'.post].author # last'.user
           /\ Course[posts[last'.post].courseId].instructor # last'.user) =>
              (last'.status = 403 /\ posts' = posts)
       /\ (last'.op = "deletePost" /\ last'.status = 200) =>
              (last'.post \in DOMAIN posts /\ last'.post \notin DOMAIN posts')
       /\ \A p \in Deleted : p \notin DOMAIN posts'
       /\ (last'.op \in AfterDeleteOps /\ last'.post \in Deleted /\ Len(inflight') >= Len(inflight)) =>
              (last'.status = 404 /\ posts' = posts /\ inflight' = inflight)
       /\ notifs \sqsubseteq notifs'
    ]_vars

\* C5 witness: a post that had a notification sent for it is deleted, the
\* notification is still stored, and a later addReply on its id got 404.
C5_Witness ==
    /\ last.op = "addReply"
    /\ last.status = 404
    /\ last.post \in Deleted
    /\ BagCardinality(notifs) > 0

\* C7: isPinned of a stored post changes only in a pinPost request on that
\* post by a requester who has the Instructor role and is the instructor of
\* the post's course; such a request answers 200, flips the stored flag and
\* returns the stored value; a pinPost request by anyone else answers an
\* error and changes nothing; a requester without the Instructor role is
\* refused before the handler and changes nothing.
C7_PinOnlyByInstructor ==
    [][/\ \A p \in DOMAIN posts \cap DOMAIN posts' :
            posts'[p].isPinned # posts[p].isPinned =>
                /\ last'.op = "pinPost"
                /\ last'.post = p
                /\ role(last'.user) = "Instructor"
                /\ Course[posts[p].courseId].instructor = last'.user
       /\ \A p \in DOMAIN posts' \ DOMAIN posts : ~posts'[p].isPinned
       /\ last'.op = "pinPost" =>
            LET p == last'.post
                u == last'.user
            IN  IF p \in DOMAIN posts /\ Course[posts[p].courseId].instructor = u
                THEN /\ last'.status = 200
                     /\ posts'[p].isPinned = ~posts[p].isPinned
                     /\ last'.data.isPinned = posts'[p].isPinned
                     /\ posts' = [posts EXCEPT ![p].isPinned = ~posts[p].isPinned]
                ELSE last'.status \in {403, 404} /\ posts' = posts
       /\ (last'.op = "authorizeRoles" /\ last'.data.route = "pinPost") =>
            (last'.status = 403 /\ posts' = posts)
    ]_vars

\* C7 witness: the course instructor has unpinned a post pinned earlier.
C7_Witness ==
    /\ last.op = "pinPost"
    /\ last.status = 200
    /\ last.pre # NoPost
    /\ last.pre.isPinned
    /\ ~posts[last.post].isPinned
    /\ ~last.data.isPinned

\* C8: the post (or reply) is stored before the notification insert: when
\* the notification insert of createForumPost, createAnnouncement or
\* addReply fails, the request answers an error, the post (or reply) is
\* stored all the same, and no notification of the failed insert is; when
\* createAnnouncement fails at the instructor's notification, the students'
\* notifications are stored without it.
C8_NotAtomic ==
    [][/\ (last'.op = "createForumPost" /\ last'.status = 500) =>
            /\ last'.data.fail = "notify"
            /\ nextId \in DOMAIN posts' \ DOMAIN posts
            /\ posts'[nextId].author = last'.user
            /\ notifs' = notifs
       /\ (last'.op = "createForumPost" /\ last'.data.fail = "notify"
           /\ nextId \in DOMAIN posts' /\ Course[last'.data.courseId].instructor # last'.user) =>
            last'.status = 500
       /\ (last'.op = "createAnnouncement" /\ last'.status = 500) =>
            /\ last'.data.fail \in {"students", "instructor"}
            /\ nextId \in DOMAIN posts' \ DOMAIN posts
            /\ posts'[nextId].category = "Announcement"
            /\ CopiesIn(Notification(Course[last'.data.courseId].instructor, "Announcement"), notifs')
                 = CopiesIn(Notification(Course[last'.data.courseId].instructor, "Announcement"), notifs)
            /\ last'.data.fail = "students" => notifs' = notifs
            /\ last'.data.fail = "instructor" =>
                 \A i \in 1..Len(Course[last'.data.courseId].enrolledStudents) :
                    CopiesIn(Notification(Course[last'.data.courseId].enrolledStudents[i], "Announcement"), notifs')
                      > CopiesIn(Notification(Course[last'.data.courseId].enrolledStudents[i], "Announcement"), notifs)
       /\ (last'.op = "addReply" /\ last'.status = 500) =>
            /\ last'.data.fail = "notify"
            /\ Len(posts'[last'.post].replies) = Len(posts[last'.post].replies) + 1
            /\ posts'[last'.post].replies[Len(posts'[last'.post].replies)].author = last'.user
            /\ notifs' = notifs
    ]_vars

\* C8 witness: createAnnouncement ended in an error with the post stored and
\* the student's notification stored without the instructor's.
C8_Witness ==
    /\ last.op = "createAnnouncement"
    /\ last.status = 500
    /\ last.post \in DOMAIN posts
    /\ CopiesIn(Notification("u2", "Announcement"), notifs) = 1
    /\ CopiesIn(Notification("u1", "Announcement"), notifs) = 0

\* the likes list a like response is about, in a post as stored
LikesIn(post, resp) ==
    IF resp.kind = "post" THEN post.likes ELSE post.replies[replyPos(post, resp.reply)].likes

Count(s, x) == Cardinality({i \in 1..Len(s) : s[i] = x})

SameLikes(s, t) == \A w \in Users : Count(s, w) = Count(t, w)

\* C6 (as claimed): a like request answered with nothing else in between
\* (the stored list is still the list it read) adds the requester when
\* absent and removes them otherwise, changes no other user's like, answers
\* isLiked exactly when the requester is in the list afterwards and likes
\* as the list's length; and toggling twice in a row gives every user the
\* likes they had (the list is compared by its members, not their order).
C6_ToggleClaim ==
    /\ (/\ last.op \in {"toggleLikePost", "toggleLikeReply"}
        /\ last.status = 200
        /\ LikesIn(last.pre, last.data) = last.data.read) =>
          LET before == last.data.read
              after == LikesIn(posts[last.post], last.data)
              u == last.user
          IN  /\ u \notin Range(before) => u \in Range(after)
              /\ u \in Range(before) => u \notin Range(after)
              /\ \A w \in Users \ {u} : Count(after, w) = Count(before, w)
              /\ last.data.isLiked = (u \in Range(after))
              /\ last.data.likes = Len(after)
    /\ \A p \in DOMAIN posts, u \in Users :
          /\ SameLikes(ToggleLikes(ToggleLikes(posts[p].likes, u), u), posts[p].likes)
          /\ \A i \in 1..Len(posts[p].replies) :
                SameLikes(ToggleLikes(ToggleLikes(posts[p].replies[i].likes, u), u),
                          posts[p].replies[i].likes)

NoDuplicates(s) == \A i, j \in 1..Len(s) : s[i] = s[j] => i = j

\* C10 (as claimed): whatever the interleaving of like requests, no likes
\* list holds a user twice, and a like request that is saved leaves every
\* other user's like as it was stored.
C10_ConcurrentToggles ==
    /\ \A p \in DOMAIN posts :
          /\ NoDuplicates(posts[p].likes)
          /\ \A i \in 1..Len(posts[p].replies) : NoDuplicates(posts[p].replies[i].likes)
    /\ (last.op \in {"toggleLikePost", "toggleLikeReply"} /\ last.status = 200) =>
          \A w \in Users \ {last.user} :
              (w \in Range(LikesIn(posts[last.post], last.data)))
                = (w \in Range(LikesIn(last.pre, last.data)))

\* the posts a paginated response is about, from its query
Matching(op, query) ==
    {p \in DOMAIN posts :
        CASE op = "getMyPosts" -> posts[p].author = query.author
          [] op = "getCourseDiscussions" ->
                /\ posts[p].courseId = query.courseId
                /\ (query.category = Undefined \/ posts[p].category = query.category)
                /\ (query.search = Undefined \/ posts[p].title = "t2")
          [] op = "getAllPosts" -> (query.search = Undefined \/ posts[p].title = "t2")}

\* p comes before q in the order of the response
ComesBefore(op, p, q) ==
    IF op = "getCourseDiscussions" /\ posts[p].isPinned # posts[q].isPinned
    THEN posts[p].isPinned
    ELSE p > q

\* the sorted result of the query of a paginated response
Sorted(op, query) ==
    CASE op = "getMyPosts" -> MyPosts(query.author)
      [] op = "getCourseDiscussions" -> CourseDiscussions(query.courseId, query.category, query.search)
      [] op = "getAllPosts" -> AllPosts(query.search)

PagedOps == {"getMyPosts", "getCourseDiscussions", "getAllPosts"}

\* C9: a paginated response (page >= 1, limit >= 1) holds, in order, the
\* posts at positions (page-1)*limit+1 .. page*limit of the matching posts
\* sorted (pinned first for a course, then newest first), as many as there
\* are and at most limit; total is the number of matching posts, pages is
\* ceil(total / limit); and over pages 1..pages every matching post comes
\* exactly once.
C9_Pagination ==
    (last.op \in PagedOps /\ last.status = 200) =>
        LET r == last.data
            M == Matching(last.op, r.query)
            Position(p) == 1 + Cardinality({q \in M : ComesBefore(last.op, q, p)})
            first == (r.page - 1) * r.limit
        IN  /\ r.total = Cardinality(M)
            /\ r.pages * r.limit >= r.total
            /\ (r.pages - 1) * r.limit < r.total \/ (r.total = 0 /\ r.pages = 0)
            /\ Len(r.data) <= r.limit
            /\ \A i \in 1..Len(r.data) : r.data[i] \in M /\ Position(r.data[i]) = first + i
            /\ \A p \in M : (first < Position(p) /\ Position(p) <= first + r.limit) => p \in Range(r.data)
            /\ \A p \in M :
                  Cardinality({pi \in (1..r.pages) \X (1..r.limit) :
                      /\ pi[2] <= Len(Paginate(Sorted(last.op, r.query), pi[1], r.limit))
                      /\ Paginate(Sorted(last.op, r.query), pi[1], r.limit)[pi[2]] = p}) = 1

\* C9 witness: the second page of a course's discussions, one post long,
\* of three matching posts of which an older, pinned one comes first.
C9_Witness ==
    /\ last.op = "getCourseDiscussions"
    /\ last.status = 200
    /\ last.data.page = 2
    /\ last.data.limit = 2
    /\ last.data.total = 3
    /\ last.data.pages = 2
    /\ Len(last.data.data) = 1
    /\ \E p \in DOMAIN posts : posts[p].isPinned /\ p # 3 /\ posts[p].courseId = "c1"
====
